---- MODULE Spec2Model ----
(***************************************************************************)
(* Verification model of the AiSignalPro dashboard client.                 *)
(*                                                                         *)
(* The repository holds several iterations of one Next.js page.  The model *)
(* covers the parts that carry logic:                                      *)
(*   - Home of src/unnamed/part_000: the composite-signal feed (fetchSignal,*)
(*     the 60 s polling effect, the Refresh button, the symbol selector);  *)
(*   - SystemStatus, MarketOverview and PriceTicker of src/src/app/page.js:*)
(*     three independent polling widgets;                                  *)
(*   - SystemStatus, MarketOverview and PriceTicker of                     *)
(*     src/unnamed/part_001: two widgets that fetch once and one that polls;*)
(*   - AnalysisConclusion of src/unnamed/part_001: the conclusion          *)
(*     derivation over one analysis record.                                *)
(*                                                                         *)
(* JavaScript values are tagged records, so that null, undefined, strings, *)
(* numbers, arrays and objects stay distinct.  Time is a countdown per     *)
(* interval timer, advanced in quanta of a fraction of the interval.       *)
(***************************************************************************)
EXTENDS Integers, Sequences, FiniteSets, TLC

VARIABLES
    \* Home (src/unnamed/part_000:205-208) and DetailedAnalysis (:159)
    signalData, loading, error, currentSymbol, selectedSymbol,
    \* Home of src/unnamed/part_001:360, set by its PriceTicker
    btcPrice,
    \* SystemStatus, MarketOverview, PriceTicker (src/src/app/page.js)
    statuses, statusIsLoading, marketData, marketIsLoading,
    livePrices, priceIsLoading,
    \* the JavaScript/React runtime: per feed, the live interval timers and
    \* the fetches awaiting their response; per component, its life cycle
    timers, inflight, phase,
    \* AnalysisConclusion (src/unnamed/part_001:141-167): input and output
    analysis, conclusion,
    \* observers: the scheduled ticks of the signal feed since a fetch of it
    \* last succeeded, and the event that produced the current state
    misses, last

vars == <<signalData, loading, error, currentSymbol, selectedSymbol, btcPrice,
          statuses, statusIsLoading, marketData, marketIsLoading,
          livePrices, priceIsLoading, timers, inflight, phase,
          analysis, conclusion, misses, last>>

homeVars   == <<signalData, loading, error, currentSymbol, selectedSymbol, misses,
                btcPrice>>
widgetVars == <<statuses, statusIsLoading, marketData, marketIsLoading,
                livePrices, priceIsLoading>>
deriveVars == <<analysis, conclusion>>

-----------------------------------------------------------------------------
(* Bounds of the model *)

\* fetches of one feed that may await their response at the same time
MaxInflight == 3
\* time quanta per polling interval
PhasesPerInterval == 2
\* distinct payloads the composite-signal endpoint may answer with per symbol
MaxVersion == 2
\* fetches of one widget that may await their response at the same time
MaxWidgetInflight == 2
\* divergence entries in one analysis record
MaxEntries == 2

(* Program constants *)

SignalIntervalMs == 60000
WidgetIntervalMs == 5000
TickerIntervalMs == 15000
\* consecutive failed ticks after which the specification calls a feed Stale
StaleMisses == 3

-----------------------------------------------------------------------------
(* JavaScript values *)

NULL  == [t |-> "null"]
UNDEF == [t |-> "undefined"]
Str(s) == [t |-> "string", s |-> s]
Num(n) == [t |-> "number", n |-> n]
Arr(a) == [t |-> "array", a |-> a]

\* new Error(message), as read back through e.message
Err(m) == [t |-> "Error", message |-> m]

Min(a, b) == IF a < b THEN a ELSE b
Max(a, b) == IF a > b THEN a ELSE b

RemoveAt(s, i) == SubSeq(s, 1, i - 1) \o SubSeq(s, i + 1, Len(s))

-----------------------------------------------------------------------------
(* Feeds, components, timers and requests *)

Feeds == {"signal", "status", "market", "price"}
Components == {"Home", "Page"}

symbols == <<"BTC", "ETH", "XRP", "SOL", "DOGE">>
\* the symbols of the selector that are exercised
Symbols == {symbols[1], symbols[2]}

QuantumMs(intervalMs) == Max(1, intervalMs \div PhasesPerInterval)

\* setInterval(callback, intervalMs): a timer due in intervalMs; arg is what
\* the callback closes over
NewTimer(intervalMs, arg) == [left |-> intervalMs, every |-> intervalMs, arg |-> arg]

\* fetch(url): a request awaiting its response.  stale is an observer flag:
\* the polling effect that was live when the request was issued has since
\* been cleaned up
NewRequest(arg) == [arg |-> arg, stale |-> FALSE]

MarkStale(q) == [i \in 1..Len(q) |-> [q[i] EXCEPT !.stale = TRUE]]

ClearInterval(ts) == IF ts = <<>> THEN ts ELSE Tail(ts)

\* every live timer, as <<feed, index>>
LiveTimers == {fi \in Feeds \X (1..MaxInflight + 1) : fi[2] <= Len(timers[fi[1]])}

-----------------------------------------------------------------------------
(* The composite-signal endpoint, as seen by fetchSignal                   *)

\* data.signal of a SUCCESS answer; the top-level analysis of any answer
SignalOf(symbol, v) == [t |-> "object", symbol |-> symbol, id |-> v]
DetailsOf(symbol, v) == [t |-> "object", of |-> symbol, id |-> v]

SignalBody(status, signal, message, details) ==
    [t |-> "object", status |-> status, signal |-> signal,
     message |-> message, full_analysis_details |-> details]

SignalBodies(symbol) ==
       {SignalBody("SUCCESS", SignalOf(symbol, v), UNDEF, DetailsOf(symbol, v)) :
            v \in 1..MaxVersion}
  \cup {SignalBody("NEUTRAL", UNDEF, Str("Market is neutral"), DetailsOf(symbol, 1))}
  \cup {SignalBody("ERROR", UNDEF, m, UNDEF) : m \in {UNDEF, Str("No data")}}
  \cup {SignalBody("NO_DATA", UNDEF, UNDEF, UNDEF)}

\* what a fetch of the endpoint can end in: fetch() rejects, the response is
\* not ok, response.json() throws, or a parsed body
Failures == {[kind |-> "network"], [kind |-> "http"], [kind |-> "parse"]}
Parsed(body) == [kind |-> "json", body |-> body]
SignalOutcomes(symbol) == Failures \cup {Parsed(b) : b \in SignalBodies(symbol)}

\* e.message of the exception a failed fetch raises inside fetchSignal
FailureMessage(o) ==
    CASE o.kind = "network" -> "Failed to fetch"
      [] o.kind = "http"    -> "HTTP error! status: 500"
      [] o.kind = "parse"   -> "Unexpected token < in JSON at position 0"

Truthy(v) == v.t \notin {"null", "undefined"} /\ v # Str("") /\ v # Num(0)

\* { ...data, symbol }
WithSymbol(data, symbol) ==
    [t |-> "object", status |-> data.status, signal |-> data.signal,
     message |-> data.message,
     full_analysis_details |-> data.full_analysis_details, symbol |-> symbol]

-----------------------------------------------------------------------------
(* Home (src/unnamed/part_000)                                             *)

\* the try block as it would be if only SUCCESS were told apart and every
\* other parsed body were stored
SignalResultStoresAnyStatus(symbol, o) ==
    IF o.kind # "json" THEN [threw |-> TRUE, message |-> FailureMessage(o)]
    ELSE IF o.body.status = "SUCCESS"
         THEN [threw |-> FALSE, data |-> o.body.signal]
    ELSE [threw |-> FALSE, data |-> WithSymbol(o.body, symbol)]

\* what the try block of fetchSignal does with a response: the signalData to
\* store, or the error thrown
SignalResult(symbol, o) ==
    IF o.kind # "json" THEN [threw |-> TRUE, message |-> FailureMessage(o)]
    ELSE IF o.body.status = "SUCCESS"
         THEN [threw |-> FALSE, data |-> o.body.signal]
    ELSE IF o.body.status = "NEUTRAL"
         THEN [threw |-> FALSE, data |-> WithSymbol(o.body, symbol)]
    ELSE [threw |-> TRUE,
          message |-> IF Truthy(o.body.message) THEN o.body.message.s
                      ELSE "Unknown API error"]

\* fetchSignal as it would be if the polling effect returned no cleanup: the
\* re-run of the effect adds a timer and the old one stays
fetchSignalKeepsOldTimer(symbol, ts) ==
    /\ Len(inflight.signal) + (IF symbol # currentSymbol THEN 2 ELSE 1) <= MaxInflight
    /\ loading' = TRUE
    /\ error' = NULL
    /\ currentSymbol' = symbol
    /\ LET issued == Append(inflight.signal, NewRequest(symbol)) IN
       IF symbol # currentSymbol
       THEN /\ inflight' = [inflight EXCEPT
                               !.signal = Append(MarkStale(issued), NewRequest(symbol))]
            /\ timers' = [timers EXCEPT
                             !.signal = Append(ts, NewTimer(SignalIntervalMs, symbol))]
       ELSE /\ inflight' = [inflight EXCEPT !.signal = issued]
            /\ timers' = [timers EXCEPT !.signal = ts]

\* fetchSignal(symbol) up to its await, followed by the re-render it causes:
\* when setCurrentSymbol changes currentSymbol the polling effect is cleaned
\* up (clearInterval) and run again (fetchSignal, setInterval).  ts is the
\* signal feed's timers as the caller leaves them.
fetchSignal(symbol, ts) ==
    /\ Len(inflight.signal) + (IF symbol # currentSymbol THEN 2 ELSE 1) <= MaxInflight
    /\ loading' = TRUE
    /\ error' = NULL
    /\ currentSymbol' = symbol
    /\ LET issued == Append(inflight.signal, NewRequest(symbol)) IN
       IF symbol # currentSymbol
       THEN /\ inflight' = [inflight EXCEPT
                               !.signal = Append(MarkStale(issued), NewRequest(symbol))]
            /\ timers' = [timers EXCEPT
                             !.signal = Append(ClearInterval(ts),
                                               NewTimer(SignalIntervalMs, symbol))]
       ELSE /\ inflight' = [inflight EXCEPT !.signal = issued]
            /\ timers' = [timers EXCEPT !.signal = ts]

\* the polling effect on mount
HomeMount ==
    /\ phase.Home = "rendered"
    /\ phase' = [phase EXCEPT !.Home = "mounted"]
    /\ loading' = TRUE
    /\ error' = NULL
    /\ currentSymbol' = currentSymbol
    /\ inflight' = [inflight EXCEPT !.signal = Append(@, NewRequest(currentSymbol))]
    /\ timers' = [timers EXCEPT
                     !.signal = Append(@, NewTimer(SignalIntervalMs, currentSymbol))]
    /\ last' = [op |-> "mount", feed |-> "signal", stale |-> FALSE]
    /\ UNCHANGED <<signalData, selectedSymbol, misses, btcPrice, widgetVars, deriveVars>>

\* the cleanup of the polling effect on unmount
HomeUnmount ==
    /\ phase.Home = "mounted"
    /\ phase' = [phase EXCEPT !.Home = "unmounted"]
    /\ timers' = [timers EXCEPT !.signal = ClearInterval(@)]
    /\ inflight' = [inflight EXCEPT !.signal = MarkStale(@)]
    /\ last' = [op |-> "unmount", feed |-> "signal", stale |-> FALSE]
    /\ UNCHANGED <<homeVars, widgetVars, deriveVars>>

\* the interval callback () => fetchSignal(currentSymbol) of timer i
SignalTick(i) ==
    /\ i \in 1..Len(timers.signal)
    /\ timers.signal[i].left = 0
    /\ fetchSignal(timers.signal[i].arg,
                   [timers.signal EXCEPT ![i].left = timers.signal[i].every])
    /\ misses' = Min(misses + 1, StaleMisses)
    /\ last' = [op |-> "tick", feed |-> "signal", stale |-> FALSE]
    /\ UNCHANGED <<signalData, selectedSymbol, btcPrice, phase, widgetVars, deriveVars>>

\* onRefresh as it would be if a refresh restarted the polling interval
onRefreshRestartsTimer ==
    /\ phase.Home = "mounted"
    /\ ~loading
    /\ fetchSignal(currentSymbol, <<NewTimer(SignalIntervalMs, currentSymbol)>>)
    /\ last' = [op |-> "refresh", feed |-> "signal", stale |-> FALSE]
    /\ UNCHANGED <<signalData, selectedSymbol, misses, btcPrice, phase, widgetVars,
                   deriveVars>>

\* the Refresh button of Signals: onRefresh, disabled while loading
onRefresh ==
    /\ phase.Home = "mounted"
    /\ ~loading
    /\ fetchSignal(currentSymbol, timers.signal)
    /\ last' = [op |-> "refresh", feed |-> "signal", stale |-> FALSE]
    /\ UNCHANGED <<signalData, selectedSymbol, misses, btcPrice, phase, widgetVars,
                   deriveVars>>

\* the symbol selector of DetailedAnalysis
handleSymbolChange(symbol) ==
    /\ phase.Home = "mounted"
    /\ symbol # selectedSymbol
    /\ selectedSymbol' = symbol
    /\ fetchSignal(symbol, timers.signal)
    /\ last' = [op |-> "select", feed |-> "signal", stale |-> FALSE]
    /\ UNCHANGED <<signalData, misses, btcPrice, phase, widgetVars, deriveVars>>

\* the rest of fetchSignal once the response of request i has arrived
SignalSettle(i, o) ==
    /\ i \in 1..Len(inflight.signal)
    /\ inflight' = [inflight EXCEPT !.signal = RemoveAt(@, i)]
    /\ LET r == SignalResult(inflight.signal[i].arg, o) IN
       /\ IF phase.Home = "mounted"
          THEN /\ signalData' = IF r.threw THEN signalData ELSE r.data
               /\ error' = IF r.threw THEN Err(r.message) ELSE error
               /\ loading' = FALSE
          ELSE \* React drops state updates of an unmounted component
               UNCHANGED <<signalData, error, loading>>
       /\ misses' = IF r.threw THEN misses ELSE 0
       /\ last' = [op |-> IF r.threw THEN "failure" ELSE "success",
                   feed |-> "signal", stale |-> inflight.signal[i].stale]
    /\ UNCHANGED <<currentSymbol, selectedSymbol, btcPrice, timers, phase, widgetVars,
                   deriveVars>>

\* time passes, by at most one quantum and never beyond a due timer
Advance ==
    /\ LiveTimers # {}
    /\ \A fi \in LiveTimers : timers[fi[1]][fi[2]].left > 0
    /\ LET dt == CHOOSE d \in {Min(timers[fi[1]][fi[2]].left,
                                   QuantumMs(timers[fi[1]][fi[2]].every)) : fi \in LiveTimers} :
                    \A fi \in LiveTimers :
                        d <= Min(timers[fi[1]][fi[2]].left,
                                 QuantumMs(timers[fi[1]][fi[2]].every))
       IN timers' = [f \in Feeds |->
                       [i \in 1..Len(timers[f]) |->
                           [timers[f][i] EXCEPT !.left = @ - dt]]]
    /\ last' = [op |-> "advance", feed |-> "all", stale |-> FALSE]
    /\ UNCHANGED <<homeVars, widgetVars, deriveVars, inflight, phase>>

-----------------------------------------------------------------------------
(* SystemStatus, MarketOverview, PriceTicker (src/src/app/page.js)         *)

\* /api/status/: an array of exchange records
StatusBodies ==
    {Arr(<<[name |-> "Kucoin", status |-> "online", ping |-> p]>>) :
        p \in {"20ms", "35ms"}}
StatusOutcomes == Failures \cup {Parsed(b) : b \in StatusBodies}

\* /api/market-overview/: market_cap may be absent or 0, "not yet available"
MarketCaps == {UNDEF, Num(0), Num(2500), Num(2600)}
MarketBodies == {[t |-> "object", market_cap |-> c] : c \in MarketCaps}
MarketOutcomes == Failures \cup {Parsed(b) : b \in MarketBodies}

\* /api/data/all/: per coin an object from source to price, possibly empty
coinsToDisplay == <<"BTC", "ETH", "XRP", "SOL", "DOGE">>
Coins == 1..Len(coinsToDisplay)
Sources(v) == [t |-> "object", keys |-> <<"kucoin">>, vals |-> <<Num(v)>>]
NoSources == [t |-> "object", keys |-> <<>>, vals |-> <<>>]
\* a body that answers for BTC with btc and for ETH with eth, and for no
\* other coin
PriceBody(btc, eth) ==
    [t |-> "object",
     coins |-> [c \in Coins |-> IF c = 1 THEN btc ELSE IF c = 2 THEN eth ELSE UNDEF]]
PriceBodies ==
    {PriceBody(b, UNDEF) : b \in {UNDEF, NoSources, Sources(100), Sources(101)}}
PriceOutcomes == Failures \cup {Parsed(b) : b \in PriceBodies}

\* ((Math.random() - 0.5) * 5).toFixed(1) + '%', at the ends of its range
RandomChanges == {"-2.5%", "2.5%"}

\* source.charAt(0).toUpperCase() + source.slice(1)
Capitalized(source) == IF source = "kucoin" THEN "Kucoin" ELSE source

\* the coins for which the loop of fetchPrices makes an entry
Listed(data) ==
    {c \in Coins : Truthy(data.coins[c]) /\ Len(data.coins[c].keys) > 0}

\* the loop of fetchPrices over coinsToDisplay; rnd gives the draw per entry
FormattedPrices(data, rnd) ==
    [c \in Listed(data) |->
        [symbol |-> coinsToDisplay[c] \o "/USDT",
         price  |-> data.coins[c].vals[1],
         change |-> rnd[c],
         source |-> Capitalized(data.coins[c].keys[1])]]

\* the effects of the three widgets, run in one commit on mount of the page
PageMount ==
    /\ phase.Page = "rendered"
    /\ phase' = [phase EXCEPT !.Page = "mounted"]
    /\ inflight' = [f \in Feeds |->
                      IF f \in {"status", "market", "price"}
                      THEN Append(inflight[f], NewRequest(f)) ELSE inflight[f]]
    /\ timers' = [f \in Feeds |->
                    IF f \in {"status", "market", "price"}
                    THEN Append(timers[f], NewTimer(WidgetIntervalMs, f)) ELSE timers[f]]
    /\ last' = [op |-> "mount", feed |-> "widgets", stale |-> FALSE]
    /\ UNCHANGED <<homeVars, widgetVars, deriveVars>>

\* the unmount as it would be if the effects returned no cleanup
PageUnmountKeepsTimers ==
    /\ phase.Page = "mounted"
    /\ phase' = [phase EXCEPT !.Page = "unmounted"]
    /\ inflight' = [f \in Feeds |->
                      IF f \in {"status", "market", "price"}
                      THEN MarkStale(inflight[f]) ELSE inflight[f]]
    /\ last' = [op |-> "unmount", feed |-> "widgets", stale |-> FALSE]
    /\ UNCHANGED <<homeVars, widgetVars, deriveVars, timers>>

\* their cleanups on unmount
PageUnmount ==
    /\ phase.Page = "mounted"
    /\ phase' = [phase EXCEPT !.Page = "unmounted"]
    /\ timers' = [f \in Feeds |->
                    IF f \in {"status", "market", "price"}
                    THEN ClearInterval(timers[f]) ELSE timers[f]]
    /\ inflight' = [f \in Feeds |->
                      IF f \in {"status", "market", "price"}
                      THEN MarkStale(inflight[f]) ELSE inflight[f]]
    /\ last' = [op |-> "unmount", feed |-> "widgets", stale |-> FALSE]
    /\ UNCHANGED <<homeVars, widgetVars, deriveVars>>

\* the interval callback as it would be if each fetch began with
\* setIsLoading(true), as fetchSignal of Home does
WidgetTickSetsLoading(f, i) ==
    /\ f \in {"status", "market", "price"}
    /\ i \in 1..Len(timers[f])
    /\ timers[f][i].left = 0
    /\ Len(inflight[f]) < MaxWidgetInflight
    /\ timers' = [timers EXCEPT ![f][i].left = timers[f][i].every]
    /\ inflight' = [inflight EXCEPT ![f] = Append(@, NewRequest(f))]
    /\ statusIsLoading' = (statusIsLoading \/ f = "status")
    /\ marketIsLoading' = (marketIsLoading \/ f = "market")
    /\ priceIsLoading' = (priceIsLoading \/ f = "price")
    /\ last' = [op |-> "tick", feed |-> f, stale |-> FALSE]
    /\ UNCHANGED <<homeVars, statuses, marketData, livePrices, deriveVars, phase>>

\* the interval callback of widget f: fetchStatuses, fetchMarketData or
\* fetchPrices up to its await
WidgetTick(f, i) ==
    /\ f \in {"status", "market", "price"}
    /\ i \in 1..Len(timers[f])
    /\ timers[f][i].left = 0
    /\ Len(inflight[f]) < MaxWidgetInflight
    /\ timers' = [timers EXCEPT ![f][i].left = timers[f][i].every]
    /\ inflight' = [inflight EXCEPT ![f] = Append(@, NewRequest(f))]
    /\ last' = [op |-> "tick", feed |-> f, stale |-> FALSE]
    /\ UNCHANGED <<homeVars, widgetVars, deriveVars, phase>>

\* fetchStatuses as it would be if its catch block reset the whole dashboard
fetchStatusesResetsAll(i, o) ==
    /\ i \in 1..Len(inflight.status)
    /\ inflight' = [inflight EXCEPT !.status = RemoveAt(@, i)]
    /\ IF phase.Page = "mounted"
       THEN /\ statuses' = IF o.kind = "json" THEN o.body ELSE Arr(<<>>)
            /\ marketData' = IF o.kind = "json" THEN marketData ELSE NULL
            /\ statusIsLoading' = FALSE
       ELSE UNCHANGED <<statuses, statusIsLoading, marketData>>
    /\ last' = [op |-> IF o.kind = "json" THEN "success" ELSE "failure",
                feed |-> "status", stale |-> inflight.status[i].stale]
    /\ UNCHANGED <<homeVars, marketIsLoading, livePrices, priceIsLoading,
                   deriveVars, timers, phase>>

\* the rest of fetchStatuses once the response of request i has arrived
fetchStatuses(i, o) ==
    /\ i \in 1..Len(inflight.status)
    /\ inflight' = [inflight EXCEPT !.status = RemoveAt(@, i)]
    /\ IF phase.Page = "mounted"
       THEN /\ statuses' = IF o.kind = "json" THEN o.body ELSE Arr(<<>>)
            /\ statusIsLoading' = FALSE
       ELSE UNCHANGED <<statuses, statusIsLoading>>
    /\ last' = [op |-> IF o.kind = "json" THEN "success" ELSE "failure",
                feed |-> "status", stale |-> inflight.status[i].stale]
    /\ UNCHANGED <<homeVars, marketData, marketIsLoading, livePrices, priceIsLoading,
                   deriveVars, timers, phase>>

\* fetchMarketData as it would be if its catch block fetched again at once
fetchMarketDataRetries(i, o) ==
    /\ i \in 1..Len(inflight.market)
    /\ inflight' = [inflight EXCEPT
                       !.market = IF o.kind = "json" \/ phase.Page # "mounted"
                                  THEN RemoveAt(@, i)
                                  ELSE Append(RemoveAt(@, i), NewRequest("market"))]
    /\ IF phase.Page = "mounted"
       THEN /\ marketData' =
                 IF /\ o.kind = "json"
                    /\ Truthy(o.body)
                    /\ o.body.market_cap.t = "number"
                    /\ o.body.market_cap.n > 0
                 THEN o.body ELSE marketData
            /\ marketIsLoading' = FALSE
       ELSE UNCHANGED <<marketData, marketIsLoading>>
    /\ last' = [op |-> IF o.kind = "json" THEN "success" ELSE "failure",
                feed |-> "market", stale |-> inflight.market[i].stale]
    /\ UNCHANGED <<homeVars, statuses, statusIsLoading, livePrices, priceIsLoading,
                   deriveVars, timers, phase>>

\* fetchMarketData as it would be if it stored every parsed answer
fetchMarketDataStoresAny(i, o) ==
    /\ i \in 1..Len(inflight.market)
    /\ inflight' = [inflight EXCEPT !.market = RemoveAt(@, i)]
    /\ IF phase.Page = "mounted"
       THEN /\ marketData' = IF o.kind = "json" THEN o.body ELSE marketData
            /\ marketIsLoading' = FALSE
       ELSE UNCHANGED <<marketData, marketIsLoading>>
    /\ last' = [op |-> IF o.kind = "json" THEN "success" ELSE "failure",
                feed |-> "market", stale |-> inflight.market[i].stale]
    /\ UNCHANGED <<homeVars, statuses, statusIsLoading, livePrices, priceIsLoading,
                   deriveVars, timers, phase>>

\* the rest of fetchMarketData once the response of request i has arrived
fetchMarketData(i, o) ==
    /\ i \in 1..Len(inflight.market)
    /\ inflight' = [inflight EXCEPT !.market = RemoveAt(@, i)]
    /\ IF phase.Page = "mounted"
       THEN /\ marketData' =
                 IF /\ o.kind = "json"
                    /\ Truthy(o.body)
                    /\ o.body.market_cap.t = "number"
                    /\ o.body.market_cap.n > 0
                 THEN o.body ELSE marketData
            /\ marketIsLoading' = FALSE
       ELSE UNCHANGED <<marketData, marketIsLoading>>
    /\ last' = [op |-> IF o.kind = "json" THEN "success" ELSE "failure",
                feed |-> "market", stale |-> inflight.market[i].stale]
    /\ UNCHANGED <<homeVars, statuses, statusIsLoading, livePrices, priceIsLoading,
                   deriveVars, timers, phase>>

\* the rest of fetchPrices once the response of request i has arrived
fetchPrices(i, o, rnd) ==
    /\ i \in 1..Len(inflight.price)
    /\ inflight' = [inflight EXCEPT !.price = RemoveAt(@, i)]
    /\ IF phase.Page = "mounted"
       THEN /\ livePrices' =
                 IF o.kind = "json" /\ DOMAIN FormattedPrices(o.body, rnd) # {}
                 THEN [t |-> "object", coins |-> FormattedPrices(o.body, rnd)]
                 ELSE livePrices
            /\ priceIsLoading' = FALSE
       ELSE UNCHANGED <<livePrices, priceIsLoading>>
    /\ last' = [op |-> IF o.kind = "json" THEN "success" ELSE "failure",
                feed |-> "price", stale |-> inflight.price[i].stale]
    /\ UNCHANGED <<homeVars, statuses, statusIsLoading, marketData, marketIsLoading,
                   deriveVars, timers, phase>>

\* PriceTicker rendered on its own: its effect and the cleanup of it
PriceTickerMount ==
    /\ phase.Page = "rendered"
    /\ phase' = [phase EXCEPT !.Page = "mounted"]
    /\ inflight' = [inflight EXCEPT !.price = Append(@, NewRequest("price"))]
    /\ timers' = [timers EXCEPT !.price = Append(@, NewTimer(WidgetIntervalMs, "price"))]
    /\ last' = [op |-> "mount", feed |-> "price", stale |-> FALSE]
    /\ UNCHANGED <<homeVars, widgetVars, deriveVars>>

PriceTickerUnmount ==
    /\ phase.Page = "mounted"
    /\ phase' = [phase EXCEPT !.Page = "unmounted"]
    /\ timers' = [timers EXCEPT !.price = ClearInterval(@)]
    /\ inflight' = [inflight EXCEPT !.price = MarkStale(@)]
    /\ last' = [op |-> "unmount", feed |-> "price", stale |-> FALSE]
    /\ UNCHANGED <<homeVars, widgetVars, deriveVars>>

\* /api/data/all/ answering for one coin or for two
TickerBodies == PriceBodies \cup {PriceBody(Sources(100), Sources(7))}
TickerOutcomes == Failures \cup {Parsed(b) : b \in TickerBodies}

-----------------------------------------------------------------------------
(* SystemStatus, MarketOverview, PriceTicker of src/unnamed/part_001: the  *)
(* first two fetch once when they mount, PriceTicker polls every 15 s and  *)
(* hands the BTC record to Home                                            *)

\* /api/price-ticker/: an array of price records, or an error object
TickerRecord(symbol, price) ==
    [symbol |-> symbol, price |-> Num(price), change_24h |-> Num(1)]
TickerArrays ==
    {Arr(<<>>), Arr(<<TickerRecord("BTC", 100)>>), Arr(<<TickerRecord("ETH", 7)>>),
     [t |-> "object", error |-> Str("unavailable")]}
TickerArrayOutcomes == Failures \cup {Parsed(b) : b \in TickerArrays}

\* data.find(p => p.symbol === 'BTC'): the index of the record, 0 for none
FindBtc(data) ==
    LET hits == {k \in 1..Len(data.a) : data.a[k].symbol = "BTC"}
    IN  IF hits = {} THEN 0 ELSE CHOOSE k \in hits : \A j \in hits : k <= j

\* the effects of the three widgets on mount of the page
DashboardMount ==
    /\ phase.Page = "rendered"
    /\ phase' = [phase EXCEPT !.Page = "mounted"]
    /\ inflight' = [f \in Feeds |->
                      IF f \in {"status", "market", "price"}
                      THEN Append(inflight[f], NewRequest(f)) ELSE inflight[f]]
    /\ timers' = [timers EXCEPT
                     !.price = Append(@, NewTimer(TickerIntervalMs, "price"))]
    /\ last' = [op |-> "mount", feed |-> "widgets", stale |-> FALSE]
    /\ UNCHANGED <<homeVars, widgetVars, deriveVars>>

\* the unmount: only the effect of PriceTicker returns a cleanup
DashboardUnmount ==
    /\ phase.Page = "mounted"
    /\ phase' = [phase EXCEPT !.Page = "unmounted"]
    /\ timers' = [timers EXCEPT !.price = ClearInterval(@)]
    /\ inflight' = [f \in Feeds |->
                      IF f \in {"status", "market", "price"}
                      THEN MarkStale(inflight[f]) ELSE inflight[f]]
    /\ last' = [op |-> "unmount", feed |-> "widgets", stale |-> FALSE]
    /\ UNCHANGED <<homeVars, widgetVars, deriveVars>>

\* the rest of fetchStatus once the response of request i has arrived
fetchStatus(i, o) ==
    /\ i \in 1..Len(inflight.status)
    /\ inflight' = [inflight EXCEPT !.status = RemoveAt(@, i)]
    /\ statuses' = IF phase.Page = "mounted" /\ o.kind = "json" THEN o.body
                   ELSE statuses
    /\ last' = [op |-> IF o.kind = "json" THEN "success" ELSE "failure",
                feed |-> "status", stale |-> inflight.status[i].stale]
    /\ UNCHANGED <<homeVars, statusIsLoading, marketData, marketIsLoading,
                   livePrices, priceIsLoading, deriveVars, timers, phase>>

\* the rest of fetchOverview once the response of request i has arrived
fetchOverview(i, o) ==
    /\ i \in 1..Len(inflight.market)
    /\ inflight' = [inflight EXCEPT !.market = RemoveAt(@, i)]
    /\ marketData' = IF phase.Page = "mounted" /\ o.kind = "json" THEN o.body
                     ELSE marketData
    /\ last' = [op |-> IF o.kind = "json" THEN "success" ELSE "failure",
                feed |-> "market", stale |-> inflight.market[i].stale]
    /\ UNCHANGED <<homeVars, statuses, statusIsLoading, marketIsLoading,
                   livePrices, priceIsLoading, deriveVars, timers, phase>>

\* the rest of fetchPrices of this PriceTicker once the response of request i
\* has arrived
fetchPriceTicker(i, o) ==
    /\ i \in 1..Len(inflight.price)
    /\ inflight' = [inflight EXCEPT !.price = RemoveAt(@, i)]
    /\ IF phase.Page = "mounted" /\ o.kind = "json" /\ o.body.t = "array"
       THEN /\ livePrices' = o.body
            /\ btcPrice' = IF FindBtc(o.body) = 0 THEN btcPrice
                           ELSE [price  |-> o.body.a[FindBtc(o.body)].price,
                                 change |-> o.body.a[FindBtc(o.body)].change_24h]
       ELSE UNCHANGED <<livePrices, btcPrice>>
    /\ last' = [op |-> IF o.kind = "json" THEN "success" ELSE "failure",
                feed |-> "price", stale |-> inflight.price[i].stale]
    /\ UNCHANGED <<signalData, loading, error, currentSymbol, selectedSymbol, misses,
                   statuses, statusIsLoading, marketData, marketIsLoading,
                   priceIsLoading, deriveVars, timers, phase>>

-----------------------------------------------------------------------------
(* AnalysisConclusion (src/unnamed/part_001:141-167)                       *)

\* Strings are sequences of characters
Uppers == <<"A", "B", "C", "D", "E", "F", "G", "H", "I", "J", "K", "L", "M",
            "N", "O", "P", "Q", "R", "S", "T", "U", "V", "W", "X", "Y", "Z">>
Lowers == <<"a", "b", "c", "d", "e", "f", "g", "h", "i", "j", "k", "l", "m",
            "n", "o", "p", "q", "r", "s", "t", "u", "v", "w", "x", "y", "z">>

\* String.prototype.toLowerCase
LowerChar(c) ==
    IF \E k \in 1..Len(Uppers) : Uppers[k] = c
    THEN Lowers[CHOOSE k \in 1..Len(Uppers) : Uppers[k] = c]
    ELSE c
toLowerCase(s) == [k \in 1..Len(s) |-> LowerChar(s[k])]

\* String.prototype.includes
includes(s, sub) ==
    \E k \in 0..(Len(s) - Len(sub)) : SubSeq(s, k + 1, k + Len(sub)) = sub

bullish   == <<"b", "u", "l", "l", "i", "s", "h">>
bearish   == <<"b", "e", "a", "r", "i", "s", "h">>
uptrend   == <<"u", "p", "t", "r", "e", "n", "d">>
downtrend == <<"d", "o", "w", "n", "t", "r", "e", "n", "d">>

\* an object with ordered keys: obj[key], undefined when the key is absent
Object(keys, vals) == [t |-> "object", keys |-> keys, vals |-> vals]
Get(obj, key) ==
    IF \E k \in 1..Len(obj.keys) : obj.keys[k] = key
    THEN obj.vals[CHOOSE k \in 1..Len(obj.keys) : obj.keys[k] = key]
    ELSE UNDEF

\* analysis.divergence?.[indicator], as it would be without the || [] default
DivsOfWithoutDefault(a, indicator) ==
    IF ~Truthy(a.divergence) THEN UNDEF ELSE Get(a.divergence, indicator)

\* analysis.divergence?.[indicator] || []
DivsOf(a, indicator) ==
    IF ~Truthy(a.divergence) THEN Arr(<<>>)
    ELSE IF Truthy(Get(a.divergence, indicator)) THEN Get(a.divergence, indicator)
    ELSE Arr(<<>>)

\* divs.some(d => d.type.includes(word)): "true", "false", or "threw" when a
\* TypeError is raised before an entry matches
RECURSIVE SomeFrom(_, _, _)
SomeFrom(list, k, word) ==
    IF k > Len(list) THEN "false"
    ELSE IF list[k].t # "object" THEN "threw"
    ELSE IF list[k].type.t # "string" THEN "threw"
    ELSE IF includes(list[k].type.s, word) THEN "true"
    ELSE SomeFrom(list, k + 1, word)
some(divs, word) ==
    IF divs.t # "array" THEN "threw" ELSE SomeFrom(divs.a, 1, word)

\* x || y on the three outcomes, y evaluated only when x is false
OrElse(x, y) == IF x = "false" THEN y ELSE x

Rendered(text) == [t |-> "rendered", text |-> text]
Threw == [t |-> "threw", error |-> "TypeError"]

\* the trend branch as it would be without toLowerCase()
TrendConclusionCaseSensitive(a) ==
    LET sig == IF Truthy(a.trend) THEN a.trend.signal ELSE UNDEF IN
    IF ~Truthy(sig) THEN Rendered("N/A")
    ELSE IF sig.t # "string" THEN Threw
    ELSE IF includes(sig.s, uptrend) THEN Rendered("Bullish Trend")
    ELSE IF includes(sig.s, downtrend) THEN Rendered("Bearish Trend")
    ELSE Rendered("Neutral Trend")

\* the else-if branch on analysis.trend?.signal
TrendConclusion(a) ==
    LET sig == IF Truthy(a.trend) THEN a.trend.signal ELSE UNDEF IN
    IF ~Truthy(sig) THEN Rendered("N/A")
    ELSE IF sig.t # "string" THEN Threw
    ELSE IF includes(toLowerCase(sig.s), uptrend) THEN Rendered("Bullish Trend")
    ELSE IF includes(toLowerCase(sig.s), downtrend) THEN Rendered("Bearish Trend")
    ELSE Rendered("Neutral Trend")

\* AnalysisConclusion as it would be with the trend branch tested first
AnalysisConclusionTrendFirst(a) ==
    IF ~Truthy(a) THEN NULL
    ELSE
    LET rsiDivs  == DivsOf(a, "rsi")
        macdDivs == DivsOf(a, "macd")
        bull == OrElse(some(rsiDivs, bullish), some(macdDivs, bullish))
        bear == OrElse(some(rsiDivs, bearish), some(macdDivs, bearish))
    IN  IF TrendConclusion(a) # Rendered("N/A") THEN TrendConclusion(a)
        ELSE IF bull = "threw" THEN Threw
        ELSE IF bull = "true" THEN Rendered("Bullish Divergence")
        ELSE IF bear = "threw" THEN Threw
        ELSE IF bear = "true" THEN Rendered("Bearish Divergence")
        ELSE Rendered("N/A")

AnalysisConclusion(a) ==
    IF ~Truthy(a) THEN NULL
    ELSE
    LET rsiDivs  == DivsOf(a, "rsi")
        macdDivs == DivsOf(a, "macd")
        bull == OrElse(some(rsiDivs, bullish), some(macdDivs, bullish))
        bear == OrElse(some(rsiDivs, bearish), some(macdDivs, bearish))
    IN  IF bull = "threw" THEN Threw
        ELSE IF bull = "true" THEN Rendered("Bullish Divergence")
        ELSE IF bear = "threw" THEN Threw
        ELSE IF bear = "true" THEN Rendered("Bearish Divergence")
        ELSE TrendConclusion(a)

\* the Conclusion {label, sourceCategory} that a rendered text stands for
Conclusion(text) ==
    CASE text = "Bullish Divergence" -> [label |-> "Bullish", sourceCategory |-> "Divergence"]
      [] text = "Bearish Divergence" -> [label |-> "Bearish", sourceCategory |-> "Divergence"]
      [] text = "Bullish Trend"      -> [label |-> "Bullish", sourceCategory |-> "Trend"]
      [] text = "Bearish Trend"      -> [label |-> "Bearish", sourceCategory |-> "Trend"]
      [] text = "Neutral Trend"      -> [label |-> "Neutral", sourceCategory |-> "Trend"]
      [] text = "N/A"                -> [label |-> "Neutral", sourceCategory |-> "None"]

(* The analysis records of the backend, within the bounds *)

indicators == <<"rsi", "macd", "obv">>

DivergenceTypes ==
    {Str(<<"r", "e", "g", "_">> \o bullish), Str(<<"h", "i", "d", "_">> \o bearish), UNDEF}
Entries == {[t |-> "object", type |-> ty] : ty \in DivergenceTypes}

RECURSIVE SeqsUpTo(_, _)
SeqsUpTo(S, n) ==
    IF n = 0 THEN {<<>>}
    ELSE LET shorter == SeqsUpTo(S, n - 1) IN
         shorter \cup {Append(q, x) : q \in {r \in shorter : Len(r) = n - 1}, x \in S}

RECURSIVE SumLen(_, _)
SumLen(vals, k) ==
    IF k > Len(vals) THEN 0
    ELSE (IF vals[k].t = "array" THEN Len(vals[k].a) ELSE 0) + SumLen(vals, k + 1)

\* key orders: sequences of distinct indicator names
KeyOrders ==
    {ks \in SeqsUpTo(1..Len(indicators), Len(indicators)) :
        \A i, j \in 1..Len(ks) : i # j => ks[i] # ks[j]}

DivergenceValues == {UNDEF} \cup {Arr(l) : l \in SeqsUpTo(Entries, MaxEntries)}

Divergences ==
    {UNDEF} \cup
    {Object([k \in 1..Len(ks) |-> indicators[ks[k]]], vs) :
        ks \in KeyOrders,
        vs \in {v \in SeqsUpTo(DivergenceValues, Len(indicators)) :
                   SumLen(v, 1) <= MaxEntries}} 

TrendSignals ==
    {UNDEF, Str(<<>>), Num(1),
     Str(<<"U", "p", "t", "r", "e", "n", "d">>),
     Str(<<"D", "O", "W", "N", "T", "R", "E", "N", "D">>),
     Str(<<"R", "a", "n", "g", "i", "n", "g">>)}
Trends == {UNDEF} \cup {[t |-> "object", signal |-> sg] : sg \in TrendSignals}

Directions == {UNDEF, Str(<<"u", "p">>), Str(<<"d", "o", "w", "n">>)}
MarketStructures ==
    {UNDEF} \cup {[t |-> "object", predicted_next_leg_direction |-> d] : d \in Directions}

AnalysisRecords ==
    {[t |-> "object", divergence |-> dv, trend |-> tr, market_structure |-> ms] :
        dv \in {d \in Divergences : d = UNDEF \/ Len(d.keys) = Len(d.vals)},
        tr \in Trends, ms \in MarketStructures}

\* DetailedAnalysis renders <AnalysisConclusion analysis={currentAnalysis}/>
\* once currentAnalysis is there
RenderConclusion ==
    /\ Truthy(analysis)
    /\ conclusion = UNDEF
    /\ conclusion' = AnalysisConclusion(analysis)
    /\ last' = [op |-> "render", feed |-> "none", stale |-> FALSE]
    /\ UNCHANGED <<analysis, homeVars, widgetVars, timers, inflight, phase>>

-----------------------------------------------------------------------------
(* The feeds as the page shows them *)

\* the data a feed holds, and the value it holds before any fetch succeeded
FeedData(f) ==
    CASE f = "signal" -> signalData
      [] f = "status" -> statuses
      [] f = "market" -> marketData
      [] f = "price"  -> livePrices
NoData(f) ==
    CASE f = "signal" -> NULL
      [] f = "status" -> Arr(<<>>)
      [] f = "market" -> NULL
      [] f = "price"  -> [t |-> "object", coins |-> <<>>]
FeedLoading(f) ==
    CASE f = "signal" -> loading
      [] f = "status" -> statusIsLoading
      [] f = "market" -> marketIsLoading
      [] f = "price"  -> priceIsLoading
\* only Home keeps an error; the widgets log to the console and keep none
FeedError(f) == IF f = "signal" THEN error ELSE NULL
FeedComponent(f) == IF f = "signal" THEN "Home" ELSE "Page"

\* the state a feed is shown in: Signals renders the error, the loading line
\* or the card; the widgets render a loading line or their data
FeedState(f) ==
    IF FeedLoading(f) THEN "Loading"
    ELSE IF FeedError(f) # NULL THEN "Error"
    ELSE IF FeedData(f) # NoData(f) THEN "Success"
    ELSE "Idle"

\* what Signals renders of its props: {error && ...}, {loading && ...},
\* {!loading && !error && <SignalCard signal={signalData}/>}
Hidden == [t |-> "hidden"]
Signals ==
    [errorLine   |-> IF Truthy(error) THEN error ELSE Hidden,
     loadingLine |-> loading,
     card        |-> IF ~loading /\ ~Truthy(error) THEN signalData ELSE Hidden]

\* analysisData?.full_analysis_details, as DetailedAnalysis reads it of the
\* signalData it is handed
currentAnalysis(analysisData) ==
    IF ~Truthy(analysisData) THEN UNDEF
    ELSE IF "full_analysis_details" \in DOMAIN analysisData
         THEN analysisData.full_analysis_details
    ELSE UNDEF

-----------------------------------------------------------------------------
(* Specifications *)

InitApp ==
    /\ signalData = NULL
    /\ loading = TRUE
    /\ error = NULL
    /\ currentSymbol = "BTC"
    /\ selectedSymbol = "BTC"
    /\ btcPrice = [price |-> NULL, change |-> NULL]
    /\ statuses = Arr(<<>>)
    /\ statusIsLoading = TRUE
    /\ marketData = NULL
    /\ marketIsLoading = TRUE
    /\ livePrices = [t |-> "object", coins |-> <<>>]
    /\ priceIsLoading = TRUE
    /\ timers = [f \in Feeds |-> <<>>]
    /\ inflight = [f \in Feeds |-> <<>>]
    /\ phase = [c \in Components |-> "rendered"]
    /\ conclusion = UNDEF
    /\ misses = 0
    /\ last = [op |-> "init", feed |-> "none", stale |-> FALSE]

Init == InitApp /\ analysis = UNDEF

InitDerive == InitApp /\ analysis \in AnalysisRecords

SignalResponse ==
    \E i \in 1..Len(inflight.signal) :
        \E o \in SignalOutcomes(inflight.signal[i].arg) : SignalSettle(i, o)

NextHome ==
    \/ HomeMount
    \/ HomeUnmount
    \/ \E i \in 1..MaxInflight : SignalTick(i)
    \/ onRefresh
    \/ \E s \in Symbols : handleSymbolChange(s)
    \/ SignalResponse
    \/ Advance

SpecHome == Init /\ [][NextHome]_vars

StatusResponse == \E i \in 1..MaxWidgetInflight : \E o \in StatusOutcomes : fetchStatuses(i, o)
MarketResponse == \E i \in 1..MaxWidgetInflight : \E o \in MarketOutcomes : fetchMarketData(i, o)
PriceResponse ==
    \E i \in 1..MaxWidgetInflight : \E o \in PriceOutcomes :
        \E rnd \in [(IF o.kind = "json" THEN Listed(o.body) ELSE {}) -> RandomChanges] :
            fetchPrices(i, o, rnd)

NextWidgets ==
    \/ PageMount
    \/ PageUnmount
    \/ \E f \in Feeds : \E i \in 1..MaxWidgetInflight : WidgetTick(f, i)
    \/ StatusResponse
    \/ MarketResponse
    \/ PriceResponse
    \/ Advance

SpecWidgets == Init /\ [][NextWidgets]_vars

TickerResponse ==
    \E i \in 1..MaxWidgetInflight : \E o \in TickerOutcomes :
        \E rnd \in [(IF o.kind = "json" THEN Listed(o.body) ELSE {}) -> RandomChanges] :
            fetchPrices(i, o, rnd)

NextTicker ==
    \/ PriceTickerMount
    \/ PriceTickerUnmount
    \/ \E i \in 1..MaxWidgetInflight : WidgetTick("price", i)
    \/ TickerResponse
    \/ Advance

SpecTicker == Init /\ [][NextTicker]_vars

\* the page of src/unnamed/part_001 before it mounts: useState([]),
\* useState({}), useState([])
InitDashboard ==
    /\ signalData = NULL
    /\ loading = TRUE
    /\ error = NULL
    /\ currentSymbol = "BTC"
    /\ selectedSymbol = "BTC"
    /\ btcPrice = [price |-> NULL, change |-> NULL]
    /\ statuses = Arr(<<>>)
    /\ statusIsLoading = TRUE
    /\ marketData = [t |-> "object", market_cap |-> UNDEF]
    /\ marketIsLoading = TRUE
    /\ livePrices = Arr(<<>>)
    /\ priceIsLoading = TRUE
    /\ timers = [f \in Feeds |-> <<>>]
    /\ inflight = [f \in Feeds |-> <<>>]
    /\ phase = [c \in Components |-> "rendered"]
    /\ analysis = UNDEF
    /\ conclusion = UNDEF
    /\ misses = 0
    /\ last = [op |-> "init", feed |-> "none", stale |-> FALSE]

StatusOnceResponse ==
    \E i \in 1..MaxWidgetInflight : \E o \in StatusOutcomes : fetchStatus(i, o)
OverviewOnceResponse ==
    \E i \in 1..MaxWidgetInflight : \E o \in MarketOutcomes : fetchOverview(i, o)
PriceTickerResponse ==
    \E i \in 1..MaxWidgetInflight : \E o \in TickerArrayOutcomes : fetchPriceTicker(i, o)
PriceTickerTick == \E i \in 1..MaxWidgetInflight : WidgetTick("price", i)

NextDashboard ==
    \/ DashboardMount
    \/ DashboardUnmount
    \/ PriceTickerTick
    \/ StatusOnceResponse
    \/ OverviewOnceResponse
    \/ PriceTickerResponse
    \/ Advance

\* every fetch is answered or fails in the end, time passes, and a due
\* interval callback runs
SpecDashboard ==
    /\ InitDashboard
    /\ [][NextDashboard]_vars
    /\ WF_vars(Advance)
    /\ SF_vars(PriceTickerTick)
    /\ WF_vars(StatusOnceResponse)
    /\ WF_vars(OverviewOnceResponse)
    /\ WF_vars(PriceTickerResponse)

NextDerive == RenderConclusion

SpecDerive == InitDerive /\ [][NextDerive]_vars

-----------------------------------------------------------------------------
(* Claims *)

\* C1: for every feed, at most one request of that feed is in flight in
\* every reachable state (a tick that fires while a request of the feed is in
\* flight issues no second request).
C1_AtMostOneInFlight == \A f \in Feeds : Len(inflight[f]) <= 1

\* C2: when a fetch of a mounted feed fails after an earlier successful
\* fetch, the feed's data is still the payload of that successful fetch and
\* the feed's state becomes Error.
C2_FailureKeepsData ==
    [][\A f \in Feeds :
          (/\ last'.op = "failure" /\ last'.feed = f
           /\ phase[FeedComponent(f)] = "mounted"
           /\ FeedData(f) # NoData(f))
          => (FeedData(f)' = FeedData(f) /\ FeedState(f)' = "Error")]_vars

\* C3: a mounted signal feed of which StaleMisses consecutive scheduled ticks
\* have all failed, no fetch having succeeded in between, is in state Stale.
C3_StaleAfterMisses ==
    (/\ phase.Home = "mounted"
     /\ misses >= StaleMisses
     /\ last.op = "failure" /\ last.feed = "signal"
     /\ inflight.signal = <<>>)
    => FeedState("signal") = "Stale"

\* C4: the response of a request that was in flight when the polling effect
\* of the signal feed was cleaned up changes neither signalData nor loading
\* nor error.
C4_NoChangeAfterCancel ==
    [][(last'.feed = "signal" /\ last'.op \in {"success", "failure"} /\ last'.stale)
          => UNCHANGED <<signalData, loading, error>>]_vars

\* C5: a manual refresh issues one fetch for the current symbol in the same
\* step and leaves the interval timers of the feed as they are: none added,
\* none removed, the time left until the next tick unchanged.
C5_RefreshKeepsTimer ==
    [][last'.op = "refresh"
          => (/\ timers' = timers
              /\ inflight'.signal =
                     Append(inflight.signal, NewRequest(currentSymbol)))]_vars
\* a refresh in the middle of a polling interval
C5_Witness ==
    /\ last.op = "refresh"
    /\ Len(timers.signal) = 1
    /\ timers.signal[1].left > 0
    /\ timers.signal[1].left < SignalIntervalMs

\* C6: a failed fetch of one feed leaves the data, loading flag, error,
\* timers and pending requests of every other feed unchanged, so that the other
\* feeds' ticks fire as before.
C6_FailureIsIsolated ==
    [][\A f \in Feeds :
          (last'.op = "failure" /\ last'.feed = f)
          => \A g \in Feeds \ {f} :
                /\ FeedData(g)' = FeedData(g)
                /\ FeedLoading(g)' = FeedLoading(g)
                /\ FeedError(g)' = FeedError(g)
                /\ timers'[g] = timers[g]
                /\ inflight'[g] = inflight[g]]_vars
\* the status feed has just failed while the other two widgets hold data and
\* have a timer running
C6_Witness ==
    /\ last.op = "failure" /\ last.feed = "status"
    /\ phase.Page = "mounted"
    /\ marketData # NULL
    /\ livePrices # NoData("price")
    /\ timers.market # <<>> /\ timers.price # <<>>

\* C7: directly after a successful fetch of the mounted signal feed the feed
\* is in state Success (not loading, no error shown) and its miss counter is 0.
C7_SuccessGivesSuccess ==
    [][(last'.op = "success" /\ last'.feed = "signal" /\ phase.Home = "mounted")
          => (FeedState("signal")' = "Success" /\ misses' = 0)]_vars

\* C8: AnalysisConclusion returns a conclusion for every analysis record; it
\* never throws.
C8_DeriveIsTotal == conclusion # UNDEF => conclusion.t = "rendered"

\* C9: the label of the conclusion is one of Bullish, Bearish, Neutral for
\* every analysis record.
C9_LabelIsOneOfThree ==
    conclusion # UNDEF =>
        /\ conclusion.t = "rendered"
        /\ Conclusion(conclusion.text).label \in {"Bullish", "Bearish", "Neutral"}

\* the divergence map of record a has, under some indicator, an entry whose
\* type contains "bullish"
HasBullishEntry(a) ==
    /\ Truthy(a.divergence)
    /\ \E k \in 1..Len(a.divergence.keys) :
          /\ a.divergence.vals[k].t = "array"
          /\ \E j \in 1..Len(a.divergence.vals[k].a) :
                /\ a.divergence.vals[k].a[j].type.t = "string"
                /\ includes(a.divergence.vals[k].a[j].type.s, bullish)

\* C10: whenever a conclusion is rendered for a record with a divergence entry,
\* under any indicator, whose type contains "bullish", its label is Bullish.
C10_BullishDivergenceWins ==
    (conclusion.t = "rendered" /\ HasBullishEntry(analysis)) =>
        Conclusion(conclusion.text).label = "Bullish"


\* the fields of an analysis record that the conclusion is derived from
TrendSignal(a) == IF Truthy(a.trend) THEN a.trend.signal ELSE UNDEF
NextLegDirection(a) ==
    IF Truthy(a.market_structure)
    THEN a.market_structure.predicted_next_leg_direction ELSE UNDEF
NonEmptyString(v) == v.t = "string" /\ v.s # <<>>

\* the divergence map of record a is absent or lists no entry under any
\* indicator
NoDivergenceEntries(a) ==
    \/ ~Truthy(a.divergence)
    \/ \A k \in 1..Len(a.divergence.vals) :
          \/ a.divergence.vals[k].t # "array"
          \/ a.divergence.vals[k].a = <<>>

\* C11: for a record without divergence entries whose trend.signal is a
\* non-empty string, the conclusion is decided by the signal without regard to
\* case: "uptrend" gives {Bullish, Trend}, "downtrend" {Bearish, Trend}, any
\* other signal {Neutral, Trend}.
C11_TrendDecides ==
    (/\ conclusion # UNDEF
     /\ NoDivergenceEntries(analysis)
     /\ NonEmptyString(TrendSignal(analysis)))
    => /\ conclusion.t = "rendered"
       /\ Conclusion(conclusion.text) =
             [label |-> IF includes(toLowerCase(TrendSignal(analysis).s), uptrend)
                        THEN "Bullish"
                        ELSE IF includes(toLowerCase(TrendSignal(analysis).s), downtrend)
                        THEN "Bearish"
                        ELSE "Neutral",
              sourceCategory |-> "Trend"]
C11_Witness ==
    /\ conclusion = Rendered("Bearish Trend")
    /\ analysis.divergence = Object(<<>>, <<>>)
    /\ TrendSignal(analysis) = Str(<<"D", "O", "W", "N", "T", "R", "E", "N", "D">>)

\* C12: a record with no divergence entries, no trend.signal and no
\* predicted_next_leg_direction is concluded {Neutral, None}.
C12_NoEvidenceIsNeutralNone ==
    (/\ conclusion # UNDEF
     /\ NoDivergenceEntries(analysis)
     /\ ~Truthy(TrendSignal(analysis))
     /\ ~Truthy(NextLegDirection(analysis)))
    => /\ conclusion.t = "rendered"
       /\ Conclusion(conclusion.text) = [label |-> "Neutral", sourceCategory |-> "None"]
C12_Witness ==
    /\ conclusion = Rendered("N/A")
    /\ analysis.divergence = UNDEF
    /\ analysis.trend = UNDEF
    /\ analysis.market_structure = UNDEF

\* C13: a record with no divergence entries and no trend.signal is concluded
\* from predicted_next_leg_direction: "up" gives {Bullish, MarketStructure},
\* "down" gives {Bearish, MarketStructure}.
C13_MarketStructureDecides ==
    (/\ conclusion # UNDEF
     /\ NoDivergenceEntries(analysis)
     /\ ~Truthy(TrendSignal(analysis))
     /\ Truthy(NextLegDirection(analysis)))
    => /\ conclusion.t = "rendered"
       /\ Conclusion(conclusion.text) =
             [label |-> IF NextLegDirection(analysis) = Str(<<"u", "p">>)
                        THEN "Bullish" ELSE "Bearish",
              sourceCategory |-> "MarketStructure"]

\* the divergence entries the component reads, and what they say
ReadEntries(a) == DivsOf(a, "rsi").a \o DivsOf(a, "macd").a
AllTyped(es) == \A j \in 1..Len(es) : es[j].type.t = "string"
Mentions(es, word) == \E j \in 1..Len(es) : includes(es[j].type.s, word)

FirstNonEmpty(a) ==
    LET full == {k \in 1..Len(a.divergence.keys) :
                    /\ a.divergence.vals[k].t = "array"
                    /\ a.divergence.vals[k].a # <<>>}
    IN  IF full = {} THEN 0 ELSE CHOOSE k \in full : \A j \in full : k <= j

\* C15, for divergence maps over rsi and macd whose entries all have a type:
\* the first indicator in key order with a non-empty list decides, Bullish if
\* one of its entries contains "bullish", else Bearish if one contains
\* "bearish".
C15_FirstIndicatorDecides ==
    (/\ conclusion # UNDEF
     /\ Truthy(analysis.divergence)
     /\ \A k \in 1..Len(analysis.divergence.keys) :
           analysis.divergence.keys[k] \in {"rsi", "macd"}
     /\ AllTyped(ReadEntries(analysis))
     /\ FirstNonEmpty(analysis) # 0)
    => LET first == analysis.divergence.vals[FirstNonEmpty(analysis)].a IN
       /\ conclusion.t = "rendered"
       /\ Conclusion(conclusion.text) =
             [label |-> IF Mentions(first, bullish) THEN "Bullish" ELSE "Bearish",
              sourceCategory |-> "Divergence"]

\* n.toFixed(d) for n = v / 10^d
Digits == <<"0", "1", "2", "3", "4", "5", "6", "7", "8", "9">>
RECURSIVE NatStr(_)
NatStr(n) == IF n < 10 THEN Digits[n + 1] ELSE NatStr(n \div 10) \o Digits[(n % 10) + 1]
RECURSIVE Pow10(_)
Pow10(d) == IF d = 0 THEN 1 ELSE 10 * Pow10(d - 1)
RECURSIVE Padded(_, _)
Padded(n, d) == IF d = 0 THEN "" ELSE Padded(n \div 10, d - 1) \o Digits[(n % 10) + 1]
toFixed(v, d) ==
    LET abs == IF v < 0 THEN 0 - v ELSE v IN
    (IF v < 0 THEN "-" ELSE "") \o NatStr(abs \div Pow10(d))
        \o (IF d = 0 THEN "" ELSE "." \o Padded(abs % Pow10(d), d))

\* PriceDelta: (current - previous) / previous * 100 in hundredths of a percent,
\* rounded; 0 without a previous price
PriceDelta(previous, current) ==
    IF previous = 0 THEN 0
    ELSE (2 * 10000 * (current - previous) + previous) \div (2 * previous)

\* the shown change s stands for h hundredths of a percent
Denotes(s, h) ==
    \E d \in 0..2 : /\ h % Pow10(2 - d) = 0
                    /\ s = toFixed(h \div Pow10(2 - d), d) \o "%"

\* C16: the change shown for a coin after a successful price fetch is the
\* percentage change from the price held for that coin before to the new
\* price, and 0.00 when no price was held before.
C16_ChangeIsDeltaOfPrices ==
    [][(/\ last'.op = "success" /\ last'.feed = "price"
        /\ phase.Page = "mounted"
        /\ livePrices' # livePrices)
       => \A c \in DOMAIN livePrices'.coins :
             Denotes(livePrices'.coins[c].change,
                     PriceDelta(IF c \in DOMAIN livePrices.coins
                                THEN livePrices.coins[c].price.n ELSE 0,
                                livePrices'.coins[c].price.n))]_vars

\* C17: a successful price fetch leaves a price stored for every coin that had
\* one before, and changes no price but those of the coins it answers for.
C17_OneObservationPerSymbol ==
    [][\A i \in 1..MaxWidgetInflight : \A o \in TickerOutcomes :
         \A rnd \in [(IF o.kind = "json" THEN Listed(o.body) ELSE {}) -> RandomChanges] :
           (fetchPrices(i, o, rnd) /\ o.kind = "json" /\ phase.Page = "mounted")
           => \A c \in Coins :
                IF c \in Listed(o.body)
                THEN /\ c \in DOMAIN livePrices'.coins
                     /\ livePrices'.coins[c].price = o.body.coins[c].vals[1]
                ELSE /\ (c \in DOMAIN livePrices'.coins) = (c \in DOMAIN livePrices.coins)
                     /\ c \in DOMAIN livePrices.coins
                           => livePrices'.coins[c].price = livePrices.coins[c].price]_vars

\* the answers whose status is neither SUCCESS nor NEUTRAL
UpstreamErrors ==
    {o \in UNION {SignalOutcomes(sym) : sym \in Symbols} :
        o.kind = "json" /\ o.body.status \notin {"SUCCESS", "NEUTRAL"}}

\* what fetchSignal stores for the SUCCESS and NEUTRAL answers
StoredData ==
    UNION {{IF b.status = "SUCCESS" THEN b.signal ELSE WithSymbol(b, sym) :
               b \in {x \in SignalBodies(sym) : x.status \in {"SUCCESS", "NEUTRAL"}}} :
           sym \in Symbols}
FromSuccessOrNeutral(d) == d \in StoredData

\* C18: a parsed composite-signal answer whose status is neither SUCCESS nor
\* NEUTRAL sets the error and leaves signalData unchanged, and signalData is
\* never anything but null or the data of a SUCCESS or NEUTRAL answer.
C18_UpstreamErrorKeepsData ==
    [][/\ (last'.feed = "signal" /\ last'.op \in {"success", "failure"}
              /\ phase.Home = "mounted")
            => \A i \in 1..Len(inflight.signal) : \A o \in UpstreamErrors :
                  SignalSettle(i, o) => (error' # NULL /\ signalData' = signalData)
       /\ (signalData' = NULL \/ FromSuccessOrNeutral(signalData'))]_vars
C18_Witness ==
    /\ phase.Home = "mounted"
    /\ last.op = "failure" /\ last.feed = "signal"
    /\ error = Err("No data")
    /\ signalData # NULL

\* C19: once the component of a feed is unmounted the feed has no timer, none
\* of its ticks fires any more, and running its cleanup again would change
\* nothing.
C19_CancelIsTeardown ==
    \A f \in Feeds :
        phase[FeedComponent(f)] = "unmounted" =>
            /\ timers[f] = <<>>
            /\ ~(last.op = "tick" /\ last.feed = f)
            /\ ClearInterval(timers[f]) = timers[f]
            /\ MarkStale(inflight[f]) = inflight[f]
C19_Witness ==
    /\ phase.Page = "unmounted"
    /\ last.op \in {"success", "failure"}
    /\ last.feed = "status"
    /\ inflight.status = <<>>

\* the polling interval of a feed
IntervalOf(f) == IF f = "signal" THEN SignalIntervalMs ELSE WidgetIntervalMs

\* C20, for the polling widgets: the response to a fetch, failed or not,
\* changes no timer and issues no request; a request is issued only on mount
\* or by a tick of a due timer,
\* which then runs the full fixed interval again; and time does not pass
\* beyond a due timer.
C20_StrictlyPeriodic ==
    [][\A f \in Feeds \ {"signal"} :
         /\ (last'.feed = f /\ last'.op \in {"success", "failure"})
               => (timers' = timers /\ Len(inflight'[f]) = Len(inflight[f]) - 1)
         /\ Len(inflight'[f]) > Len(inflight[f])
               => \/ last'.op = "mount"
                  \/ /\ last'.op = "tick" /\ last'.feed = f
                     /\ \E i \in 1..Len(timers[f]) :
                           /\ timers[f][i].left = 0
                           /\ timers'[f][i].left = IntervalOf(f)
         /\ \A i \in 1..Len(timers'[f]) :
               /\ timers'[f][i].every = IntervalOf(f)
               /\ timers'[f][i].left \in 0..IntervalOf(f)
         /\ (last'.op = "advance" /\ last' # last)
               => \A i \in 1..Len(timers[f]) : timers[f][i].left > 0]_vars
C20_Witness ==
    /\ phase.Page = "mounted"
    /\ last.op = "tick" /\ last.feed = "status"
    /\ ~statusIsLoading /\ statuses = Arr(<<>>)
    /\ Len(inflight.status) = 1
    /\ timers.status[1].left = WidgetIntervalMs

\* C21: while the page stays mounted every feed is requested again and again
\* by its own timer.
C21_PolledContinuously ==
    \A f \in {"status", "market", "price"} :
        <>[](phase.Page = "mounted")
            => []<><<\E i \in 1..MaxWidgetInflight : WidgetTick(f, i)>>_vars

\* C22: when the latest fetch of the mounted signal feed failed while the feed
\* holds data of an earlier successful fetch, Signals shows that data together
\* with the error.
C22_LastKnownGoodShown ==
    (/\ phase.Home = "mounted"
     /\ last.op = "failure" /\ last.feed = "signal"
     /\ signalData # NULL)
    => (Signals.card = signalData /\ Signals.errorLine # Hidden)

\* C23: the responses of the signal feed are applied in the order in which
\* their requests were issued: the response that is applied is always that of
\* the oldest request still awaiting its response.
C23_AppliedInIssueOrder ==
    [][(/\ last'.feed = "signal" /\ last'.op \in {"success", "failure"}
        /\ phase.Home = "mounted")
          => inflight'.signal = Tail(inflight.signal)]_vars

\* C24: every feed has at most one interval timer in every reachable state:
\* exactly one while its component is mounted, none before the mount and none
\* after the unmount; the timer of the signal feed is always the one created
\* for the current symbol.
C24_OneTimerPerFeed ==
    \A f \in Feeds :
        /\ Len(timers[f]) = (IF phase[FeedComponent(f)] = "mounted" THEN 1 ELSE 0)
        /\ (f = "signal" /\ timers[f] # <<>>)
              => (timers[f][1].arg = currentSymbol
                    /\ timers[f][1].every = SignalIntervalMs)
\* right after a change of symbol the only timer is the fresh one of the new
\* symbol
C24_Witness ==
    /\ last.op = "select"
    /\ currentSymbol = "ETH"
    /\ timers.signal = <<NewTimer(SignalIntervalMs, "ETH")>>
    /\ signalData # NULL

\* C25: whenever Home is mounted, no signal request awaits its response and no
\* error is set, the signalData held is that of a request for currentSymbol.
C25_DataIsOfCurrentSymbol ==
    (/\ phase.Home = "mounted"
     /\ inflight.signal = <<>>
     /\ error = NULL
     /\ signalData # NULL)
    => signalData.symbol = currentSymbol

\* C26: while Home is mounted, loading is true exactly when at least one
\* signal request awaits its response.
C26_LoadingIffInFlight ==
    phase.Home = "mounted" => (loading <=> inflight.signal # <<>>)

\* C27: the selection of another symbol issues exactly one signal request, for
\* the new symbol, and leaves currentSymbol equal to the selected symbol.
C27_SelectIssuesOneRequest ==
    [][last'.op = "select"
          => (/\ Len(inflight'.signal) = Len(inflight.signal) + 1
              /\ inflight'.signal[Len(inflight'.signal)].arg = selectedSymbol'
              /\ currentSymbol' = selectedSymbol')]_vars

\* a market-overview payload that carries a market cap
Available(data) ==
    /\ Truthy(data)
    /\ data.market_cap.t = "number"
    /\ data.market_cap.n > 0
\* the parsed answers without one
UnavailableAnswers == {o \in MarketOutcomes : o.kind = "json" /\ ~Available(o.body)}

\* C28: a parsed market-overview answer whose market_cap is absent or 0 leaves
\* marketData unchanged; marketData changes only through a successful answer,
\* and then to a payload with market_cap > 0; once set it is never null or
\* unavailable again.
C28_UnavailableKeepsMarketData ==
    [][/\ (last'.feed = "market" /\ last'.op = "success")
            => \A i \in 1..Len(inflight.market) : \A o \in UnavailableAnswers :
                  fetchMarketData(i, o) => marketData' = marketData
       /\ marketData' # marketData
            => (/\ last'.feed = "market" /\ last'.op = "success"
                /\ Available(marketData'))
       /\ marketData # NULL => Available(marketData')]_vars
\* the first answer came without a market cap: the widget has stopped loading
\* and still holds no data
C28_Witness ==
    /\ phase.Page = "mounted"
    /\ last.op = "success" /\ last.feed = "market"
    /\ ~marketIsLoading
    /\ marketData = NULL

\* the answers fetchSignal accepts
AcceptedBodies(sym) == {b \in SignalBodies(sym) : b.status \in {"SUCCESS", "NEUTRAL"}}

\* C29: after a SUCCESS or NEUTRAL answer has been applied, the analysis that
\* DetailedAnalysis reads from signalData is the top-level
\* full_analysis_details of that answer.
C29_DetailsAreThoseOfAnswer ==
    [][(/\ last'.feed = "signal" /\ last'.op = "success"
        /\ phase.Home = "mounted")
          => \E sym \in Symbols : \E b \in AcceptedBodies(sym) :
                /\ signalData' = SignalResult(sym, Parsed(b)).data
                /\ currentAnalysis(signalData') = b.full_analysis_details]_vars

====
